---- MODULE Spec2Model ----
(***************************************************************************)
(* Task execution pipeline of process-gpt-crewai-action:                   *)
(*   core/polling_manager.py  polling loop, worker supervisor, watchdog    *)
(*   core/database.py         job-source client (claim, status, writes)    *)
(* One pipeline instance (consumer Me) runs on a single-threaded asyncio   *)
(* event loop: the polling coroutine and the watchdog tasks only change    *)
(* hands at an await that really suspends.  Worker processes, the other    *)
(* consumers and the external actor that cancels tasks run concurrently.   *)
(***************************************************************************)
EXTENDS Integers, FiniteSets, Sequences, TLC

\* ------------------------------------------------------------------ bounds
NTasks == 2
NOthers == 1
\* _async_retry(fn, *, name, retries=3, base_delay=0.8)
Retries == 3

\* await asyncio.sleep(5) of the watchdog, start_todolist_polling(interval=7)
WatchInterval == 5
PollInterval == 7

Tasks == 1..NTasks
Me == 0
Consumers == 0..NOthers
NoTask == 0
None == <<>>
ExitCodes == {0, 1}
CancelStatuses == {"CANCELLED", "FB_REQUESTED"}

\* ============================================================ result parser
\* src/utils.py: _parse_json_guard, _parse_multiple_json_objects,
\* _to_form_dict and convert_crew_output, on texts made of tokens.

\* bounds of the texts and values the parser is applied to
MaxFragments == 2
MaxList == 2

\* keys of the mappings: '폼_데이터' (written form_data), the wrapper key
\* 'result', the keys 'key' and 'text' of a list entry, 'content', the form
\* identifier F and the field keys a and b
FormDataKey == "form_data"
Keys == {FormDataKey, "result", "key", "text", "content", "F", "a", "b"}
FieldKeys == {"a", "b"}

\* JSON / Python values: null, number, string, list, mapping.  A mapping is
\* a function on Keys whose absent keys map to Absent.
Val(k, s, l, m) == [kind |-> k, list |-> l, map |-> m, str |-> s]
Absent == Val("absent", "", <<>>, <<>>)
Null == Val("null", "", <<>>, <<>>)
Num1 == Val("num", "1", <<>>, <<>>)
Str(s) == Val("str", s, <<>>, <<>>)
List(q) == Val("list", "", q, <<>>)
Map(f) == Val("map", "", <<>>, f)
EmptyMap == [k \in Keys |-> Absent]
isinstance_dict(v) == v.kind = "map"
KeysOf(f) == {k \in Keys : f[k] # Absent}
\* the mapping {k: v}
Single(k, v) == [EmptyMap EXCEPT ![k] = v]
\* mutant: a key that is already there keeps its value
update_keeping_earlier(f, g) == [k \in Keys |-> IF f[k] # Absent THEN f[k] ELSE g[k]]
\* dict.update: the later mapping wins on a key conflict
update(f, g) == [k \in Keys |-> IF g[k] # Absent THEN g[k] ELSE f[k]]

\* tokens of a text: braces, line break, a "key": value pair of JSON, a
\* 'key': value pair in Python literal syntax, a "key": `raw` pair whose
\* value is a backtick literal, a whole JSON value that is no object, and
\* the delimiter ``` of a fenced block, and anything else (prose, a damaged
\* pair)
Tok(t, k, v) == [tok |-> t, key |-> k, val |-> v]
LBrace == Tok("lbrace", "", Absent)
RBrace == Tok("rbrace", "", Absent)
NL == Tok("nl", "", Absent)
Junk == Tok("junk", "", Absent)
Fence == Tok("fence", "", Absent)
Pair(k, v) == Tok("pair", k, v)
PyPair(k, v) == Tok("pypair", k, v)
BtPair(k, s) == Tok("btpair", k, Str(s))
Bare(v) == Tok("value", "", v)

\* result of a parse: a value, or the exception
Parsed(v) == [ok |-> TRUE, val |-> v]
Raised == [ok |-> FALSE, val |-> Absent]

\* _repair_backtick_value_literals: ': `raw`' becomes ': "raw"' (json.dumps)
_repair_backtick_value_literals(text) ==
    [i \in 1..Len(text) |->
        IF text[i].tok = "btpair" THEN Pair(text[i].key, text[i].val) ELSE text[i]]

\* str.strip() / the whitespace json.loads skips around the document
RECURSIVE lstrip(_)
lstrip(text) ==
    IF text # <<>> /\ Head(text) = NL THEN lstrip(Tail(text)) ELSE text
RECURSIVE rstrip(_)
rstrip(text) ==
    IF text # <<>> /\ text[Len(text)] = NL
       THEN rstrip(SubSeq(text, 1, Len(text) - 1)) ELSE text
strip(text) == rstrip(lstrip(text))

\* the mapping of the pairs of a sequence of tokens, later pairs winning
RECURSIVE PairsToDict(_)
PairsToDict(toks) ==
    IF toks = <<>> THEN EmptyMap
    ELSE LET last == toks[Len(toks)]
             rest == PairsToDict(SubSeq(toks, 1, Len(toks) - 1))
         IN  IF last.tok = "nl" THEN rest
             ELSE [rest EXCEPT ![last.key] = last.val]

\* one object: '{' pairs (of the kinds allowed) '}', line breaks anywhere
IsObject(text, kinds) ==
    /\ Len(text) >= 2
    /\ text[1] = LBrace /\ text[Len(text)] = RBrace
    /\ \A i \in 2..(Len(text) - 1) : text[i].tok \in kinds \cup {"nl"}

\* json.loads(text)
json_loads(text) ==
    LET t == strip(text) IN
    IF IsObject(t, {"pair"})
       THEN Parsed(Map(PairsToDict(SubSeq(t, 2, Len(t) - 1))))
    ELSE IF Len(t) = 1 /\ t[1].tok = "value" THEN Parsed(t[1].val)
    ELSE Raised

\* ast.literal_eval(text): Python literal syntax; a JSON null is a name and
\* is refused
ast_literal_eval(text) ==
    LET t == strip(text) IN
    IF /\ IsObject(t, {"pair", "pypair"})
       /\ \A i \in 1..Len(t) : t[i].tok = "pair" => t[i].val # Null
       THEN Parsed(Map(PairsToDict(SubSeq(t, 2, Len(t) - 1))))
    ELSE IF Len(t) = 1 /\ t[1].tok = "value" /\ t[1].val # Null THEN Parsed(t[1].val)
    ELSE Raised

\* re.split(r'\}\s*\n\s*\{', text): the length of a boundary that starts at
\* the head of the text ('}', one or more line breaks, '{'), or 0
RECURSIVE NLRun(_)
NLRun(text) == IF text # <<>> /\ Head(text) = NL THEN 1 + NLRun(Tail(text)) ELSE 0
BoundaryLen(text) ==
    IF text # <<>> /\ Head(text) = RBrace
       THEN LET n == NLRun(Tail(text)) IN
            IF n >= 1 /\ Len(text) >= n + 2 /\ text[n + 2] = LBrace THEN n + 2 ELSE 0
       ELSE 0
RECURSIVE re_split(_)
re_split(text) ==
    IF text = <<>> THEN << <<>> >>
    ELSE IF BoundaryLen(text) > 0
       THEN << <<>> >> \o re_split(SubSeq(text, BoundaryLen(text) + 1, Len(text)))
    ELSE LET r == re_split(Tail(text)) IN
         << <<Head(text)>> \o r[1] >> \o Tail(r)

\* the fragment i of the split with its outer braces put back
Fragment(parts, i) ==
    (IF i > 1 THEN <<LBrace>> ELSE <<>>) \o strip(parts[i])
       \o (IF i < Len(parts) THEN <<RBrace>> ELSE <<>>)

\* _parse_multiple_json_objects: every fragment that json.loads parses to a
\* dict is merged with dict.update, in order; the others are skipped
RECURSIVE MergeFragments(_, _)
MergeFragments(parts, n) ==
    IF n = 0 THEN EmptyMap
    ELSE LET merged == MergeFragments(parts, n - 1)
             obj == json_loads(Fragment(parts, n))
         IN  IF obj.ok /\ isinstance_dict(obj.val)
                THEN update(merged, obj.val.map) ELSE merged
_parse_multiple_json_objects(text) ==
    LET parts == re_split(strip(text)) IN Map(MergeFragments(parts, Len(parts)))

\* '}\n{' in repaired or '}\r\n{' in repaired
HasObjectBoundary(text) ==
    \E i \in 1..(Len(text) - 2) :
       text[i] = RBrace /\ text[i + 1] = NL /\ text[i + 2] = LBrace

\* _parse_json_guard: json.loads of the repaired text; else the merge of
\* several objects when the text has an object boundary; else
\* ast.literal_eval, whose failure is raised as ValueError
_parse_json_guard(text) ==
    LET repaired == _repair_backtick_value_literals(text) IN
    IF json_loads(repaired).ok THEN json_loads(repaired)
    ELSE IF HasObjectBoundary(repaired)
       THEN Parsed(_parse_multiple_json_objects(repaired))
    ELSE ast_literal_eval(repaired)

\* _to_form_dict, list case: {item.get("key"): item.get("text") for item in
\* form_data if isinstance(item, dict) and "key" in item}
RECURSIVE ListToDict(_)
ListToDict(q) ==
    IF q = <<>> THEN EmptyMap
    ELSE LET item == q[Len(q)]
             rest == ListToDict(SubSeq(q, 1, Len(q) - 1))
         IN  IF isinstance_dict(item) /\ item.map["key"] # Absent
                THEN [rest EXCEPT ![item.map["key"].str] =
                         IF item.map["text"] # Absent THEN item.map["text"] ELSE Null]
                ELSE rest

\* mutant: a form data that is a plain string is dropped
_to_form_dict_without_strings(form_data) ==
    IF isinstance_dict(form_data) THEN form_data.map
    ELSE IF form_data.kind = "list" THEN ListToDict(form_data.list)
    ELSE EmptyMap

\* _to_form_dict
_to_form_dict(form_data) ==
    IF isinstance_dict(form_data) THEN form_data.map
    ELSE IF form_data.kind = "list" THEN ListToDict(form_data.list)
    ELSE IF form_data.kind = "str" THEN Single("content", form_data)
    ELSE EmptyMap

\* the text of a string value that convert_crew_output may parse again
\* (the value of the wrapper key 'result'); any other string is plain words
StrText(s) ==
    CASE s = "{form_data:{a:x}}" ->
            <<LBrace, Pair(FormDataKey, Map(Single("a", Str("x")))), RBrace>>
      [] s = "{'form_data':{'b':'y'}}" ->
            <<LBrace, PyPair(FormDataKey, Map(Single("b", Str("y")))), RBrace>>
      [] s = "{form_data:{a:x}}\n{b:y}" ->
            <<LBrace, Pair(FormDataKey, Map(Single("a", Str("x")))), RBrace, NL,
              LBrace, Pair("b", Str("y")), RBrace>>
      [] s = "{a:x}" -> <<LBrace, Pair("a", Str("x")), RBrace>>
      [] s = "{a:x}\n{b:y}" ->
            <<LBrace, Pair("a", Str("x")), RBrace, NL,
              LBrace, Pair("b", Str("y")), RBrace>>
      [] s = "{words}\n{words}" -> <<LBrace, Junk, RBrace, NL, LBrace, Junk, RBrace>>
      [] s = "{a:x" -> <<LBrace, Pair("a", Str("x"))>>
      [] s = "[1]" -> <<Bare(List(<<Num1>>))>>
      [] OTHER -> <<Junk>>

\* outcome of convert_crew_output: the five returned mappings (and the
\* first parse, output_val), or the exception it re-raises
Returned(parsed, pure, wrapped, original, report, slide) ==
    [ok |-> TRUE, parsed |-> parsed, pure |-> pure, wrapped |-> wrapped,
     original |-> original, report |-> report, slide |-> slide]
NoOut ==
    [ok |-> FALSE, parsed |-> Absent, pure |-> EmptyMap, wrapped |-> EmptyMap,
     original |-> EmptyMap, report |-> EmptyMap, slide |-> EmptyMap]

\* mutant: a 'result' that is a string is not parsed
ResultData_unparsed(output_val) ==
    IF isinstance_dict(output_val) /\ output_val.map["result"] # Absent
       THEN IF isinstance_dict(output_val.map["result"])
               THEN output_val.map["result"].map ELSE EmptyMap
    ELSE IF isinstance_dict(output_val) THEN output_val.map
    ELSE EmptyMap

\* result_data of convert_crew_output for the first parse output_val
ResultData(output_val) ==
    IF isinstance_dict(output_val) /\ output_val.map["result"] # Absent
       THEN LET result_value == output_val.map["result"] IN
            IF result_value.kind = "str"
               THEN LET inner == _parse_json_guard(StrText(result_value.str)) IN
                    IF inner.ok /\ isinstance_dict(inner.val)
                       THEN inner.val.map ELSE EmptyMap
            ELSE IF isinstance_dict(result_value) THEN result_value.map
            ELSE EmptyMap
    ELSE IF isinstance_dict(output_val) THEN output_val.map
    ELSE EmptyMap

\* output_val after the 'result' wrapper was taken off
Unwrapped(output_val, result_data) ==
    IF isinstance_dict(output_val) /\ output_val.map["result"] # Absent
       THEN IF result_data[FormDataKey] # Absent
               THEN Map(result_data)
               ELSE Map(Single(FormDataKey, Map(result_data)))
       ELSE output_val

\* mutant: the form data is returned as it is, with or without form_id
wrapped_form_data_unwrapped(pure_form_data, form_id) == pure_form_data

\* wrapped_form_data = {form_id: pure_form_data} if form_id else pure_form_data
wrapped_form_data(pure_form_data, form_id) ==
    IF form_id # "" THEN Single(form_id, Map(pure_form_data)) ELSE pure_form_data

\* mutant: the routed fields are copied and stay in the form data
separate_fields_keeping(form_dict, result_data, report_field_keys, slide_field_keys) ==
    [pure |-> form_dict,
     report |-> [k \in Keys |->
                   IF k \notin report_field_keys THEN Absent
                   ELSE IF k # FormDataKey /\ result_data[k] # Absent
                      THEN result_data[k] ELSE form_dict[k]],
     slide |-> [k \in Keys |->
                  IF k \notin slide_field_keys \ report_field_keys THEN Absent
                  ELSE IF k # FormDataKey /\ result_data[k] # Absent
                     THEN result_data[k] ELSE form_dict[k]]]

\* the fields that form_types declares as report or slide fields are taken
\* from result_data and moved out of the form data
separate_fields(form_dict, result_data, report_field_keys, slide_field_keys) ==
    LET \* fields routed from result_data
        report1 == [k \in Keys |->
                      IF k # FormDataKey /\ k \in report_field_keys
                         THEN result_data[k] ELSE Absent]
        slide1 == [k \in Keys |->
                      IF k # FormDataKey /\ k \notin report_field_keys
                            /\ k \in slide_field_keys
                         THEN result_data[k] ELSE Absent]
        \* fields moved out of the form data
        toReport(k) == k \in report_field_keys /\ report1[k] = Absent
        toSlide(k) == ~toReport(k) /\ k \in slide_field_keys /\ slide1[k] = Absent
    IN  [pure |-> [k \in Keys |->
                     IF k \in report_field_keys \cup slide_field_keys
                        THEN Absent ELSE form_dict[k]],
         report |-> [k \in Keys |-> IF toReport(k) THEN form_dict[k] ELSE report1[k]],
         slide |-> [k \in Keys |-> IF toSlide(k) THEN form_dict[k] ELSE slide1[k]]]

\* form_raw = output_val.get('form_data') if isinstance(output_val, dict)
\* else None
form_raw(output_val) ==
    IF isinstance_dict(output_val) /\ output_val.map[FormDataKey] # Absent
       THEN output_val.map[FormDataKey] ELSE Null

\* convert_crew_output after the first parse (parsed) and the handling of
\* the 'result' wrapper (output_val, result_data)
extract_form_data(parsed, output_val, result_data, form_id, report_keys, slide_keys) ==
    LET original_wo_form ==
            IF isinstance_dict(output_val) THEN output_val.map ELSE EmptyMap
        fields == separate_fields(_to_form_dict(form_raw(output_val)), result_data,
                                  report_keys, slide_keys)
    IN  Returned(parsed, fields.pure,
                 wrapped_form_data(fields.pure, form_id),
                 [original_wo_form EXCEPT ![FormDataKey] = Absent],
                 fields.report, fields.slide)

\* convert_crew_output(result, form_id, form_types) with the report and
\* slide field keys that form_types declares
convert_crew_output(text, form_id, report_field_keys, slide_field_keys) ==
    LET guard == _parse_json_guard(text) IN
    IF ~guard.ok THEN NoOut
    ELSE extract_form_data(guard.val,
                           Unwrapped(guard.val, ResultData(guard.val)),
                           ResultData(guard.val), form_id,
                           report_field_keys, slide_field_keys)

\* ------------------------------------------------ inputs of the parser
SX == Str("x")
SY == Str("y")
FormMap(va, vb) == Map([EmptyMap EXCEPT !["a"] = va, !["b"] = vb])
FormMaps == {FormMap(va, vb) : va \in {Absent, SX, SY}, vb \in {Absent, SX, SY}}
\* entries of a form-data list: {key, text} pairs, a pair without text, a
\* mapping without key, and an entry that is no mapping
Entries ==
    {Map([EmptyMap EXCEPT !["key"] = Str(k), !["text"] = v]) :
        k \in FieldKeys, v \in {SX, SY}}
    \cup {Map(Single("key", Str("a"))), Map(Single("text", SX)), SX}
FormLists == UNION {[1..n -> Entries] : n \in 0..MaxList}
FormValues == FormMaps \cup {List(q) : q \in FormLists} \cup {SX, Num1, Null}
ResultValues ==
    {Str(s) : s \in {"{form_data:{a:x}}", "{'form_data':{'b':'y'}}",
                     "{form_data:{a:x}}\n{b:y}", "{a:x}", "{a:x}\n{b:y}",
                     "{words}\n{words}", "{a:x", "[1]", "words"}}
    \cup {Map(Single(FormDataKey, FormMap(SX, Absent))), FormMap(SX, SY), Num1}
Object(pairs) == <<LBrace>> \o pairs \o <<RBrace>>
\* texts of one object, of a damaged object, of prose, of prose before an
\* object, of an object in a fenced block, and of a JSON value that is no
\* object
SingleTexts ==
    {Object(<<Pair(FormDataKey, v)>>) : v \in FormValues}
    \cup {Object(<<Pair("result", r)>>) : r \in ResultValues}
    \cup {Object(<<Pair(FormDataKey, m), Pair("a", SY)>>) : m \in FormMaps}
    \cup {Object(<<PyPair(FormDataKey, m)>>) : m \in FormMaps}
    \cup {Object(<<>>), Object(<<BtPair(FormDataKey, "x")>>),
          Object(<<Pair("a", SX), NL, Pair("b", SY)>>),
          <<LBrace, Pair("a", SX)>>, <<Junk>>,
          <<Junk, NL>> \o Object(<<Pair(FormDataKey, SX)>>),
          <<Junk, NL>> \o Object(<<BtPair(FormDataKey, "x")>>),
          <<Fence, NL>> \o Object(<<Pair(FormDataKey, SX)>>) \o <<NL, Fence>>,
          <<Bare(List(<<Num1>>))>>, <<Bare(SX)>>}
\* texts of several fragments, one per line
MultiFragments ==
    {Object(<<Pair("a", SX)>>), Object(<<Pair("a", SY)>>),
     Object(<<Pair("b", SX)>>),
     Object(<<Pair(FormDataKey, FormMap(SX, Absent))>>),
     Object(<<Junk>>), <<LBrace, Pair("b", SY)>>}
RECURSIVE Lines(_)
Lines(q) == IF Len(q) = 1 THEN q[1] ELSE q[1] \o <<NL>> \o Lines(Tail(q))
MultiTexts ==
    {Lines(q) : q \in UNION {[1..n -> MultiFragments] : n \in 2..MaxFragments}}
Texts == SingleTexts \cup MultiTexts
FormIds == {"", "F"}
\* (report field keys, slide field keys) declared by form_types
FormTypes == {<<{}, {}>>, <<{"a"}, {}>>, <<{}, {"a"}>>, <<{"a"}, {"b"}>>}

Call(text, form_id, form_types) ==
    [pc |-> "call", text |-> text, form_id |-> form_id,
     report_field_keys |-> form_types[1], slide_field_keys |-> form_types[2],
     out |-> NoOut]
NoCall == [Call(<<>>, "", <<{}, {}>>) EXCEPT !.pc = "none"]
Calls == {Call(t, f, ft) : t \in Texts, f \in FormIds, ft \in FormTypes}

\* ========================================================= human query tool
\* src/tools/human_query_tool.py: HumanQueryTool._run and _wait_for_response

\* _wait_for_response(job_id, timeout_sec=30, poll_interval_sec=5)
TimeoutSec == 30
PollIntervalSec == 5
\* bound: seconds that one read of the events table may take
MaxReadSec == 2
\* the string returned when nobody answered
Refusal == "refusal"
\* a call of _run: its position, the seconds since the deadline was set, the
\* human_response row of its job id ("none", "answer": data.answer is a
\* string, "data": it is not), the outcome of its last read, what it
\* returned and why
Query(p, n, e, l, r, w) ==
    [pc |-> p, now |-> n, event |-> e, last |-> l, result |-> r, why |-> w]
NoQuery == Query("none", 0, "none", "none", "", "")

VARIABLES
    status,                  \* todolist.draft_status of every task
    consumer,                \* todolist.consumer of every task ({} is null)
    held,                    \* held[t]: consumers a claim call returned task t to
    pc,                      \* position of the polling coroutine
    attempt,                 \* _async_retry attempt of the claim in progress
    row,                     \* task handed to process_new_task (todo_id)
    raising,                 \* an exception is propagating out of process_new_task
    loopAlive,               \* start_todolist_polling is still running
    current_todo_id,
    current_process,
    worker_terminated_by_us,
    proc,                    \* the worker process spawned for each task, with the
                             \* result it stored through save_task_result
    wd,                      \* the watchdog task created for each task
    failedWrites,            \* calls of update_task_error in this process_new_task
    completedWrites,         \* calls of update_task_completed in it
    fault,                   \* the failure that occurred in it
    readErrors,              \* consecutive failing reads the job source gave (or
                             \* would have given) its input preparation
    waitOutcome,             \* how its wait on the worker ended
    sawCancel,               \* when its watchdog read a cancel status: "no", or with
                             \* the worker "running", "exiting" (exited, no exit code
                             \* recorded yet) or "exited" (exit code recorded)
    execDone,                \* its _execute_worker_process returned or raised
    conv,                    \* a call of convert_crew_output: arguments and outcome
    query                    \* a call of HumanQueryTool._run: position, clock, outcome

dbVars == <<status, consumer, held>>
loopVars == <<pc, attempt, row, raising, loopAlive>>
globalVars == <<current_todo_id, current_process, worker_terminated_by_us>>
histVars == <<failedWrites, completedWrites, fault, readErrors, waitOutcome,
              sawCancel, execDone>>
pipelineVars == <<dbVars, loopVars, globalVars, proc, wd, histVars>>
toolVars == <<conv, query>>
vars == <<pipelineVars, toolVars>>

\* a process that was never spawned, or whose handle was dropped after exit
NoProc == [os |-> "none", code |-> None, returncode |-> None, signalled |-> FALSE,
           stored |-> "none"]
\* a watchdog task that does not exist, has returned, or was cancelled
NoWatch(p) == [pc |-> p, todo |-> NoTask, attempt |-> 1, readErr |-> FALSE]

PipelineInit ==
    /\ status = [t \in Tasks |-> "PENDING"]
    /\ consumer = [t \in Tasks |-> {}]
    /\ held = [t \in Tasks |-> {}]
    /\ pc = "poll"
    /\ attempt = 1
    /\ row = NoTask
    /\ raising = FALSE
    /\ loopAlive = TRUE
    /\ current_todo_id = NoTask
    /\ current_process = NoTask
    /\ worker_terminated_by_us = FALSE
    /\ proc = [t \in Tasks |-> NoProc]
    /\ wd = [t \in Tasks |-> NoWatch("none")]
    /\ failedWrites = 0
    /\ completedWrites = 0
    /\ fault = "none"
    /\ readErrors = 0
    /\ waitOutcome = "none"
    /\ sawCancel = "no"
    /\ execDone = FALSE

\* the pipeline on its own: no parser call and no tool call is under
\* observation
Init == PipelineInit /\ conv = NoCall /\ query = NoQuery

\* ------------------------------------------------------- event-loop rules
\* The polling coroutine is suspended (another task of the loop may run) at
\* the polling sleep, a claim backoff, the to_thread lookups of the input
\* preparation, create_subprocess_exec and Process.wait.
Suspended == pc \in {"poll", "claim_retry", "prepare", "spawn", "wait"}
\* A watchdog holds the loop between the two statements of
\* terminate_current_worker.
WdRunning(t) == wd[t].pc = "signal"
WdLive(t) == wd[t].pc \in {"start", "sleep", "retry", "signal"}
LoopFree == Suspended /\ \A t \in Tasks : ~WdRunning(t)

\* The polling sleep starts after every watchdog sleep then in progress and
\* lasts longer, so such a watchdog has made its tick by the time the loop
\* wakes up to call fetch_pending_task.
PollSleepOver ==
    pc = "poll" /\ WatchInterval < PollInterval
       => \A t \in Tasks : wd[t].pc # "sleep"

\* ------------------------------------------------------------- job source
\* The claim RPC crewai_action_fetch_pending_task(p_limit=1, p_consumer=c):
\* one atomic statement that selects a PENDING task (the first one) and
\* marks it leased to consumer c.
crewai_action_fetch_pending_task(c, t) ==
    /\ status[t] = "PENDING"
    /\ \A u \in Tasks : u < t => status[u] # "PENDING"
    /\ status' = [status EXCEPT ![t] = "LEASED"]
    /\ consumer' = [consumer EXCEPT ![t] = {c}]

\* update({'draft_status': s, 'consumer': None}).eq('id', t).execute():
\* the update takes effect, or the call raises and leaves the row alone.
UpdateStatus(t, s, ok) ==
    /\ status' = IF ok THEN [status EXCEPT ![t] = s] ELSE status
    /\ consumer' = IF ok THEN [consumer EXCEPT ![t] = {}] ELSE consumer

\* update_task_error never raises (handle_error(..., raise_error=False)).
update_task_error(t, ok) ==
    /\ UpdateStatus(t, "FAILED", ok)
    /\ failedWrites' = failedWrites + 1

\* update_task_completed re-raises a failed update (handle_error default).
update_task_completed(t, ok) ==
    /\ UpdateStatus(t, "COMPLETED", ok)
    /\ completedWrites' = completedWrites + 1

\* --------------------------------------------------------- polling loop
\* process_new_task(row), entry: current_todo_id = row['id'], then the
\* coroutine suspends in _prepare_task_inputs.
process_new_task_enter(t) ==
    /\ row' = t
    /\ current_todo_id' = t
    /\ pc' = "prepare"
    /\ attempt' = 1

\* mutant: one attempt more than Retries
async_retry_failed_extra_attempt ==
    IF attempt < Retries + 1
       THEN pc' = "claim_retry" /\ attempt' = attempt + 1
       ELSE pc' = "poll" /\ attempt' = 1

\* _async_retry after a failed attempt: back off and retry, or give up after
\* Retries attempts and return None (fetch_pending_task then returns None
\* and the loop goes to its sleep).
async_retry_failed ==
    IF attempt < Retries
       THEN pc' = "claim_retry" /\ attempt' = attempt + 1
       ELSE pc' = "poll" /\ attempt' = 1

\* mutant: the row comes from a plain select of an open task, not from the
\* claim RPC
fetch_pending_task_row_unclaimed ==
    /\ loopAlive /\ LoopFree /\ pc \in {"poll", "claim_retry"} /\ PollSleepOver
    /\ \E t \in Tasks :
          /\ status[t] \in {"PENDING", "LEASED"}
          /\ Me \notin held[t]
          /\ held' = [held EXCEPT ![t] = @ \cup {Me}]
          /\ process_new_task_enter(t)
    /\ UNCHANGED <<status, consumer, raising, loopAlive, toolVars, current_process,
                   worker_terminated_by_us, proc, wd, histVars>>

\* start_todolist_polling: row = await fetch_pending_task(); a row is
\* returned and handed to process_new_task.
fetch_pending_task_row ==
    /\ loopAlive /\ LoopFree /\ pc \in {"poll", "claim_retry"} /\ PollSleepOver
    /\ \E t \in Tasks :
          /\ crewai_action_fetch_pending_task(Me, t)
          /\ held' = [held EXCEPT ![t] = @ \cup {Me}]
          /\ process_new_task_enter(t)
    /\ UNCHANGED <<raising, loopAlive, toolVars, current_process, worker_terminated_by_us,
                   proc, wd, histVars>>

\* fetch_pending_task: the RPC answers with no rows.
fetch_pending_task_empty ==
    /\ loopAlive /\ LoopFree /\ pc \in {"poll", "claim_retry"} /\ PollSleepOver
    /\ \A t \in Tasks : status[t] # "PENDING"
    /\ pc' = "poll" /\ attempt' = 1
    /\ UNCHANGED <<dbVars, row, raising, loopAlive, toolVars, globalVars, proc, wd, histVars>>

\* fetch_pending_task: the RPC call raises before the job source ran it.
fetch_pending_task_error ==
    /\ loopAlive /\ LoopFree /\ pc \in {"poll", "claim_retry"} /\ PollSleepOver
    /\ async_retry_failed
    /\ UNCHANGED <<dbVars, row, raising, loopAlive, toolVars, globalVars, proc, wd, histVars>>

\* fetch_pending_task: the job source ran the RPC but the response was lost,
\* so the call raises after the task was leased to this consumer.
fetch_pending_task_lost ==
    /\ loopAlive /\ LoopFree /\ pc \in {"poll", "claim_retry"} /\ PollSleepOver
    /\ \E t \in Tasks : crewai_action_fetch_pending_task(Me, t)
    /\ async_retry_failed
    /\ UNCHANGED <<held, row, raising, loopAlive, toolVars, globalVars, proc, wd, histVars>>

\* _prepare_task_inputs returns; _execute_worker_process starts:
\* worker_terminated_by_us = False, then await create_subprocess_exec.
prepare_task_inputs_ok ==
    /\ LoopFree /\ pc = "prepare"
    /\ worker_terminated_by_us' = FALSE
    /\ pc' = "spawn"
    /\ UNCHANGED <<dbVars, attempt, row, raising, loopAlive, toolVars, current_todo_id,
                   current_process, proc, wd, histVars>>

\* _prepare_task_inputs raises: the job source fails the next n reads of a
\* lookup (fetch_participants_info, fetch_form_types); the lookup makes one
\* read and raises on its error, and process_new_task re-raises into its
\* outer except.
prepare_task_inputs_raise ==
    /\ LoopFree /\ pc = "prepare"
    /\ \E n \in 1..Retries : readErrors' = n
    /\ fault' = "prepare"
    /\ pc' = "task_except"
    /\ UNCHANGED <<dbVars, attempt, row, raising, loopAlive, toolVars, globalVars, proc, wd,
                   failedWrites, completedWrites, waitOutcome, sawCancel, execDone>>

\* create_subprocess_exec returns: current_process is the new worker, the
\* watchdog task is created, the coroutine suspends in current_process.wait().
spawn_ok ==
    /\ LoopFree /\ pc = "spawn"
    /\ current_process' = row
    /\ proc' = [proc EXCEPT ![row] = [NoProc EXCEPT !.os = "running"]]
    /\ wd' = [wd EXCEPT ![row] = NoWatch("start")]
    /\ pc' = "wait"
    /\ UNCHANGED <<dbVars, attempt, row, raising, loopAlive, toolVars, current_todo_id,
                   worker_terminated_by_us, histVars>>

\* create_subprocess_exec raises: no worker, no watchdog.
spawn_raise ==
    /\ LoopFree /\ pc = "spawn"
    /\ fault' = "launch"
    /\ UNCHANGED readErrors
    /\ pc' = "exec_except"
    /\ UNCHANGED <<dbVars, attempt, row, raising, loopAlive, toolVars, globalVars, proc, wd,
                   failedWrites, completedWrites, waitOutcome, sawCancel, execDone>>

\* watch_task.cancel() when the task is not done: the watchdog gets
\* CancelledError at its await and never runs again.
CancelWatch(t) ==
    wd' = [wd EXCEPT ![t] = IF WdLive(t) THEN NoWatch("cancelled") ELSE @]

\* await current_process.wait() returns (the exit code was recorded);
\* if not watch_task.done(): watch_task.cancel().
wait_return ==
    /\ LoopFree /\ pc = "wait"
    /\ proc[current_process].returncode # None
    /\ CancelWatch(row)
    /\ waitOutcome' = IF worker_terminated_by_us THEN "terminated" ELSE "exited"
    /\ pc' = "classify"
    /\ UNCHANGED <<dbVars, attempt, row, raising, loopAlive, toolVars, globalVars, proc,
                   failedWrites, completedWrites, fault, readErrors, sawCancel,
                   execDone>>

\* await current_process.wait() raises: control goes to the except of
\* _execute_worker_process, which does not cancel watch_task.
wait_raise ==
    /\ LoopFree /\ pc = "wait"
    /\ wd[row].pc # "start"
    /\ fault' = "wait"
    /\ UNCHANGED readErrors
    /\ waitOutcome' = "raised"
    /\ pc' = "exec_except"
    /\ UNCHANGED <<dbVars, attempt, row, raising, loopAlive, toolVars, globalVars, proc, wd,
                   failedWrites, completedWrites, sawCancel, execDone>>

\* _execute_worker_process after the wait, with the termination flag as
\* read at line 170: terminated by us -> return with no write; non-zero
\* exit -> update_task_error and return; exit 0 -> emit_event("crew_completed")
\* and update_task_completed, each of which raises into the except of
\* _execute_worker_process when it fails.
ClassifyExit(terminated) ==
    /\ pc = "classify"
    /\ \E emitOk \in BOOLEAN, ok \in BOOLEAN :
          IF terminated
             THEN /\ emitOk /\ ok
                  /\ pc' = "finally"
                  /\ execDone' = TRUE
                  /\ UNCHANGED <<status, consumer, failedWrites, completedWrites,
                                 fault>>
          ELSE IF proc[current_process].returncode # <<0>>
             THEN /\ emitOk
                  /\ update_task_error(row, ok)
                  /\ pc' = "finally"
                  /\ execDone' = TRUE
                  /\ UNCHANGED <<completedWrites, fault>>
          ELSE IF ~emitOk
             THEN /\ ok
                  /\ fault' = "emit"
                  /\ pc' = "exec_except"
                  /\ UNCHANGED <<status, consumer, failedWrites, completedWrites,
                                 execDone>>
          ELSE /\ update_task_completed(row, ok)
               /\ fault' = IF ok THEN fault ELSE "completed_write"
               /\ pc' = IF ok THEN "finally" ELSE "exec_except"
               /\ execDone' = ok
               /\ UNCHANGED failedWrites
    /\ UNCHANGED <<held, attempt, row, raising, loopAlive, toolVars, globalVars, proc, wd,
                   readErrors, waitOutcome, sawCancel>>

\* mutant: the exit is classified by the exit code alone
classify_exit_ignoring_flag == ClassifyExit(FALSE)

classify_exit == ClassifyExit(worker_terminated_by_us)

\* except of _execute_worker_process: update_task_error(todo_id), then
\* handle_error(..., raise_error=True) re-raises into process_new_task.
execute_worker_process_except ==
    /\ pc = "exec_except"
    /\ \E ok \in BOOLEAN : update_task_error(row, ok)
    /\ execDone' = TRUE
    /\ pc' = "task_except"
    /\ UNCHANGED <<held, attempt, row, raising, loopAlive, toolVars, globalVars, proc, wd,
                   completedWrites, fault, readErrors, waitOutcome, sawCancel>>

\* outer except of process_new_task: update_task_error(todo_id), then
\* handle_error(..., raise_error=True) raises out of process_new_task.
process_new_task_except ==
    /\ pc = "task_except"
    /\ \E ok \in BOOLEAN : update_task_error(row, ok)
    /\ raising' = TRUE
    /\ pc' = "finally"
    /\ UNCHANGED <<held, attempt, row, loopAlive, toolVars, globalVars, proc, wd,
                   completedWrites, fault, readErrors, waitOutcome, sawCancel,
                   execDone>>

\* what is left of a worker once its handle is dropped: only whether it is
\* still running
Dropped(p) == IF p.os = "running" THEN [NoProc EXCEPT !.os = "running"] ELSE NoProc
\* what is left of a watchdog task once nothing refers to it: the task
\* itself as long as it has not ended
Forgotten(w) == IF WdLive(w) THEN wd[w] ELSE NoWatch("none")

\* finally of process_new_task: the globals are reset, which drops the only
\* handle on the worker process (watch_task was a local of
\* _execute_worker_process); the call returns to the polling loop (which
\* sleeps) or the exception reaches its except.
process_new_task_finally ==
    /\ pc = "finally"
    /\ current_process' = NoTask
    /\ worker_terminated_by_us' = FALSE
    /\ current_todo_id' = NoTask
    /\ proc' = [proc EXCEPT ![row] = Dropped(@)]
    /\ wd' = [wd EXCEPT ![row] = Forgotten(row)]
    /\ row' = NoTask
    /\ failedWrites' = 0 /\ completedWrites' = 0 /\ fault' = "none"
    /\ readErrors' = 0
    /\ waitOutcome' = "none" /\ sawCancel' = "no" /\ execDone' = FALSE
    /\ pc' = IF raising THEN "raised" ELSE "poll"
    /\ UNCHANGED <<dbVars, attempt, raising, loopAlive, toolVars>>

\* mutant: the polling loop's handler re-raises (raise_error=True)
start_todolist_polling_except_reraise ==
    /\ pc = "raised"
    /\ loopAlive' = FALSE
    /\ pc' = "dead"
    /\ UNCHANGED <<dbVars, attempt, row, raising, globalVars, proc, wd, histVars,
                   toolVars>>

\* except Exception of start_todolist_polling:
\* handle_error("폴링오류", e, raise_error=False), then the sleep.
start_todolist_polling_except ==
    /\ pc = "raised"
    /\ raising' = FALSE
    /\ pc' = "poll"
    /\ UNCHANGED <<dbVars, attempt, row, loopAlive, toolVars, globalVars, proc, wd, histVars>>

\* ------------------------------------------------------------- watchdog
\* while current_process and current_process.returncode is None
\*       and not worker_terminated_by_us
WatchCondition(flag) ==
    /\ current_process # NoTask
    /\ proc[current_process].returncode = None
    /\ ~flag

\* the while test after a tick: sleep 5 seconds again, or leave the loop.
WatchAgain(w, flag) ==
    IF WatchCondition(flag)
       THEN [wd[w] EXCEPT !.pc = "sleep", !.attempt = 1]
       ELSE NoWatch("done")

\* _watch_cancel_status, first step: todo_id = current_todo_id; return if
\* it is None; otherwise enter the loop.
watch_cancel_status_start(w) ==
    /\ LoopFree /\ wd[w].pc = "start"
    /\ wd' = [wd EXCEPT ![w] =
                IF current_todo_id = NoTask \/ ~WatchCondition(worker_terminated_by_us)
                   THEN NoWatch("done")
                   ELSE [@ EXCEPT !.pc = "sleep", !.todo = current_todo_id]]
    /\ UNCHANGED <<dbVars, loopVars, toolVars, globalVars, proc, histVars>>

\* mutant: the signal is sent first and the flag is left for afterwards
terminate_current_worker_signal_first(w) ==
    /\ IF current_process # NoTask /\ proc[current_process].returncode = None
          THEN /\ proc' = [proc EXCEPT ![current_process].signalled = TRUE]
               /\ wd' = [wd EXCEPT ![w].pc = "signal"]
          ELSE /\ proc' = proc
               /\ wd' = [wd EXCEPT ![w] = NoWatch("done")]
    /\ worker_terminated_by_us' = worker_terminated_by_us

\* mutant: the flag is set and the signal sent whenever there is a current
\* process, whether or not it has an exit code
terminate_current_worker_unguarded(w) ==
    /\ IF current_process # NoTask
          THEN /\ worker_terminated_by_us' = TRUE
               /\ wd' = [wd EXCEPT ![w].pc = "signal"]
          ELSE /\ worker_terminated_by_us' = worker_terminated_by_us
               /\ wd' = [wd EXCEPT ![w] = NoWatch("done")]
    /\ proc' = proc

\* terminate_current_worker, first statement: the flag is set when there is
\* a current process with no exit code (the signal follows); otherwise
\* nothing happens.  The watchdog then breaks out of its loop.
terminate_current_worker(w) ==
    /\ IF current_process # NoTask /\ proc[current_process].returncode = None
          THEN /\ worker_terminated_by_us' = TRUE
               /\ wd' = [wd EXCEPT ![w].pc = "signal"]
          ELSE /\ worker_terminated_by_us' = worker_terminated_by_us
               /\ wd' = [wd EXCEPT ![w] = NoWatch("done")]
    /\ proc' = proc

\* terminate_current_worker, second statement: current_process.terminate().
terminate_current_worker_signal(w) ==
    /\ wd[w].pc = "signal"
    /\ proc' = [proc EXCEPT ![current_process].signalled = TRUE]
    /\ wd' = [wd EXCEPT ![w] = NoWatch("done")]
    /\ UNCHANGED <<dbVars, loopVars, toolVars, globalVars, histVars>>

\* mutant: a cancel status is treated like any other status
watch_cancel_status_read_ignoring_cancel(w, s) ==
    /\ wd' = [wd EXCEPT ![w] = WatchAgain(w, worker_terminated_by_us)]
    /\ UNCHANGED <<worker_terminated_by_us, proc, sawCancel>>

\* fetch_task_status returned draft_status s to the watchdog:
\* if draft_status in ('CANCELLED', 'FB_REQUESTED'): terminate, break.
watch_cancel_status_read(w, s) ==
    IF s \in CancelStatuses
       THEN /\ terminate_current_worker(w)
            /\ sawCancel' = IF wd[w].todo # row THEN sawCancel
                            ELSE IF proc[row].returncode # None THEN "exited"
                            ELSE IF proc[row].os = "exited" THEN "exiting"
                            ELSE "running"
       ELSE /\ wd' = [wd EXCEPT ![w] = WatchAgain(w, worker_terminated_by_us)]
            /\ UNCHANGED <<worker_terminated_by_us, proc, sawCancel>>

\* mutant: a failed status read ends the watchdog
watch_cancel_status_read_error_stops(w) ==
    /\ wd' = [wd EXCEPT ![w] = NoWatch("done")]
    /\ UNCHANGED <<worker_terminated_by_us, proc, sawCancel>>

\* a read attempt of fetch_task_status failed: _async_retry backs off and
\* retries, and after Retries attempts fetch_task_status returns None, which
\* is no cancel status, so the watchdog goes back to its loop test.
watch_cancel_status_read_error(w) ==
    /\ IF wd[w].attempt < Retries
          THEN wd' = [wd EXCEPT ![w].pc = "retry", ![w].attempt = @ + 1,
                                ![w].readErr = TRUE]
          ELSE wd' = [wd EXCEPT ![w] =
                        [WatchAgain(w, worker_terminated_by_us) EXCEPT
                            !.readErr = (WatchCondition(worker_terminated_by_us))]]
    /\ UNCHANGED <<worker_terminated_by_us, proc, sawCancel>>

\* the watchdog wakes from its sleep (or from a retry backoff) and
\* fetch_task_status(todo_id) makes one read attempt.
watch_cancel_status_tick(w) ==
    /\ LoopFree /\ wd[w].pc \in {"sleep", "retry"}
    /\ \/ watch_cancel_status_read(w, status[wd[w].todo])
       \/ watch_cancel_status_read_error(w)
    /\ UNCHANGED <<dbVars, loopVars, toolVars, current_todo_id, current_process,
                   failedWrites, completedWrites, fault, readErrors, waitOutcome,
                   execDone>>

\* ------------------------------------------------------- worker process
\* result text of crew.kickoff: the text of a JSON object, or any other text
CrewOutputs == {"object", "text"}

\* utils/crew_utils.py convert_crew_output, as called by the worker:
\* json.loads(text), and when that fails output_val = text; the wrapped
\* result is the parsed object, or the raw text itself.
crew_utils_convert_crew_output(o) == IF o = "object" THEN "object" ELSE "raw"

\* the worker's runs that end with exit code 0: the crew's output, and
\* whether form_id and todo_id of the inputs are set (form_id is the task's
\* tool without its 'formHandler:' prefix, empty when the tool is)
WorkerRuns == {<<o, TRUE>> : o \in CrewOutputs} \cup {<<"text", FALSE>>}

\* main_async of the worker with exit code c: exit 0 means that
\* convert_crew_output returned and, if form_id and todo_id are set, that
\* save_task_result stored its result, else that the save was skipped; an
\* exception before or in the save (or the termination signal) gives a
\* non-zero exit with nothing stored.
main_async(run, c) ==
    IF c # 0 THEN "none"
    ELSE IF run[2] THEN crew_utils_convert_crew_output(run[1])
    ELSE "skipped"

\* ---------------------------------------------------------- environment
\* The synchronous stretches of the polling coroutine (from the return of the
\* wait to the next await) are short next to the environment: a step of the
\* environment is ordered before or after such a stretch, not inside it
\* (the steps commute, so the same states are reached).
\* the worker process exits (on its own, or after the termination signal);
\* the exit code of a worker whose handle was dropped is seen by nobody, and
\* the crew's output only matters to a worker that gets to store a result.
WorkerExit(t, c) ==
    /\ Suspended
    /\ proc[t].os = "running"
    /\ t = current_process \/ c = 0
    /\ \E run \in (IF t = current_process /\ c = 0
                       THEN WorkerRuns ELSE {<<"text", TRUE>>}) :
          proc' = [proc EXCEPT ![t] =
                     IF t = current_process
                        THEN [@ EXCEPT !.os = "exited", !.code = <<c>>,
                                       !.stored = main_async(run, c)]
                        ELSE NoProc]
    /\ UNCHANGED <<dbVars, loopVars, toolVars, globalVars, wd, histVars>>

\* the event loop's child watcher records the exit: Process.returncode is
\* set and the waiters of Process.wait() are woken.
RecordExit(t) ==
    /\ LoopFree
    /\ t = current_process
    /\ proc[t].os = "exited" /\ proc[t].returncode = None
    /\ proc' = [proc EXCEPT ![t].returncode = proc[t].code]
    /\ UNCHANGED <<dbVars, loopVars, toolVars, globalVars, wd, histVars>>

\* an external actor cancels a task leased to this consumer, or asks for
\* feedback on it.
ExternalCancel(t, s) ==
    /\ Suspended
    /\ status[t] = "LEASED" /\ consumer[t] = {Me}
    /\ status' = [status EXCEPT ![t] = s]
    /\ UNCHANGED <<consumer, held, loopVars, toolVars, globalVars, proc, wd, histVars>>

\* another pipeline instance calls fetch_pending_task against the same backlog.
OtherFetch(c) ==
    /\ Suspended
    /\ \E t \in Tasks :
          /\ crewai_action_fetch_pending_task(c, t)
          /\ held' = [held EXCEPT ![t] = @ \cup {c}]
    /\ UNCHANGED <<loopVars, toolVars, globalVars, proc, wd, histVars>>

Poller ==
    \/ fetch_pending_task_row
    \/ fetch_pending_task_empty
    \/ fetch_pending_task_error
    \/ fetch_pending_task_lost
    \/ prepare_task_inputs_ok
    \/ prepare_task_inputs_raise
    \/ spawn_ok
    \/ spawn_raise
    \/ wait_return
    \/ wait_raise
    \/ classify_exit
    \/ execute_worker_process_except
    \/ process_new_task_except
    \/ process_new_task_finally
    \/ start_todolist_polling_except

Watchdog ==
    \E w \in Tasks :
       \/ watch_cancel_status_start(w)
       \/ watch_cancel_status_tick(w)
       \/ terminate_current_worker_signal(w)

Environment ==
    \/ \E t \in Tasks, c \in ExitCodes : WorkerExit(t, c)
    \/ \E t \in Tasks : RecordExit(t)
    \/ \E t \in Tasks, s \in CancelStatuses : ExternalCancel(t, s)
    \/ \E c \in Consumers \ {Me} : OtherFetch(c)

Next == Poller \/ Watchdog \/ Environment

Spec == Init /\ [][Next]_vars

TypeOK ==
    /\ pc \in {"poll", "claim_retry", "prepare", "spawn", "wait", "classify",
               "exec_except", "task_except", "finally", "raised"}
    /\ loopAlive
    /\ attempt \in 1..Retries
    /\ failedWrites \in 0..2 /\ completedWrites \in 0..1

\* Scheduling the code guarantees: a coroutine that holds the event loop
\* runs on to its next await, the polling sleep and the claim backoff end,
\* and terminate_current_worker runs both of its statements.
Continue ==
    \/ classify_exit
    \/ execute_worker_process_except
    \/ process_new_task_except
    \/ process_new_task_finally
    \/ start_todolist_polling_except

FairSpec ==
    /\ Spec
    /\ WF_vars(Continue)
    /\ WF_vars(\E w \in Tasks : terminate_current_worker_signal(w))

\* A tick of the watchdog whose status read succeeds.
watch_cancel_status_tick_ok(w) ==
    /\ LoopFree /\ wd[w].pc \in {"sleep", "retry"}
    /\ watch_cancel_status_read(w, status[wd[w].todo])
    /\ UNCHANGED <<dbVars, loopVars, toolVars, current_todo_id, current_process,
                   failedWrites, completedWrites, fault, readErrors, waitOutcome,
                   execDone>>

\* The worker installs no signal handler: SIGTERM ends it.
TerminatedWorkerExits ==
    \E t \in Tasks, c \in ExitCodes : proc[t].signalled /\ WorkerExit(t, c)

\* Fair scheduling of the cancellation path: every watchdog task gets its
\* turn and its status reads succeed, a signalled worker exits, the child
\* watcher records the exit and the waiter of Process.wait() is resumed.
CancelFairSpec ==
    /\ FairSpec
    /\ \A w \in Tasks : WF_vars(watch_cancel_status_start(w))
    /\ \A w \in Tasks : WF_vars(watch_cancel_status_tick_ok(w))
    /\ WF_vars(TerminatedWorkerExits)
    /\ WF_vars(\E t \in Tasks : RecordExit(t))
    /\ WF_vars(wait_return)

\* ------------------------------------------------------ parser calls
ConvOut ==
    convert_crew_output(conv.text, conv.form_id, conv.report_field_keys,
                        conv.slide_field_keys)

\* convert_crew_output returns its five mappings
convert_crew_output_return ==
    /\ conv.pc = "call" /\ ConvOut.ok
    /\ conv' = [conv EXCEPT !.pc = "returned", !.out = ConvOut]
    /\ UNCHANGED <<pipelineVars, query>>

\* convert_crew_output logs and re-raises the exception of the parse
convert_crew_output_raise ==
    /\ conv.pc = "call" /\ ~ConvOut.ok
    /\ conv' = [conv EXCEPT !.pc = "raised"]
    /\ UNCHANGED <<pipelineVars, query>>

\* the parser on its own: one call on each text, form identifier and form
\* schema of the bounded sets
ParserInit == PipelineInit /\ conv \in Calls /\ query = NoQuery
ParserNext == convert_crew_output_return \/ convert_crew_output_raise
ParserSpec == ParserInit /\ [][ParserNext]_vars

\* --------------------------------------------------- human query tool
\* _run emits the human_asked event and enters _wait_for_response, which
\* computes its deadline
HumanQueryTool_run ==
    /\ query.pc = "run"
    /\ query' = [query EXCEPT !.pc = "wait", !.now = 0]
    /\ UNCHANGED <<pipelineVars, conv>>

\* an exception in _run (the event could not be emitted) is caught and the
\* refusal string is returned
HumanQueryTool_run_except ==
    /\ query.pc = "run"
    /\ query' = [query EXCEPT !.pc = "done", !.result = Refusal, !.why = "error"]
    /\ UNCHANGED <<pipelineVars, conv>>

\* a human writes the human_response event of the job id
HumanResponds ==
    /\ query.pc \in {"wait", "sleep"} /\ query.event = "none"
    /\ \E e \in {"answer", "data"} : query' = [query EXCEPT !.event = e]
    /\ UNCHANGED <<pipelineVars, conv>>

\* fetch_human_response returns the event: data.answer if it is a string,
\* else str(data)
_wait_for_response_event ==
    /\ query.pc = "wait" /\ query.now < TimeoutSec
    /\ query.event # "none"
    /\ \E d \in 0..MaxReadSec :
          query' = [query EXCEPT !.pc = "done", !.now = @ + d, !.last = "event",
                                 !.why = "event",
                                 !.result = IF query.event = "answer"
                                               THEN "answer" ELSE "str(data)"]
    /\ UNCHANGED <<pipelineVars, conv>>

\* fetch_human_response returns None: no row yet
_wait_for_response_empty ==
    /\ query.pc = "wait" /\ query.now < TimeoutSec
    /\ query.event = "none"
    /\ \E d \in 0..MaxReadSec :
          query' = [query EXCEPT !.pc = "sleep", !.now = @ + d, !.last = "empty"]
    /\ UNCHANGED <<pipelineVars, conv>>

\* mutant: the exception of the read leaves _wait_for_response and _run
\* returns the refusal string
_wait_for_response_read_error_raised ==
    /\ query.pc = "wait" /\ query.now < TimeoutSec
    /\ \E d \in 0..MaxReadSec :
          query' = [query EXCEPT !.pc = "done", !.now = @ + d, !.last = "error",
                                 !.result = Refusal, !.why = "error"]
    /\ UNCHANGED <<pipelineVars, conv>>

\* fetch_human_response raises (handle_error re-raises the read error): the
\* exception is logged and the polling goes on
_wait_for_response_read_error ==
    /\ query.pc = "wait" /\ query.now < TimeoutSec
    /\ \E d \in 0..MaxReadSec :
          query' = [query EXCEPT !.pc = "sleep", !.now = @ + d, !.last = "error"]
    /\ UNCHANGED <<pipelineVars, conv>>

\* time.sleep(poll_interval_sec)
_wait_for_response_sleep ==
    /\ query.pc = "sleep"
    /\ query' = [query EXCEPT !.pc = "wait", !.now = @ + PollIntervalSec]
    /\ UNCHANGED <<pipelineVars, conv>>

\* the deadline has passed: the refusal string
_wait_for_response_timeout ==
    /\ query.pc = "wait" /\ query.now >= TimeoutSec
    /\ query' = [query EXCEPT !.pc = "done", !.result = Refusal, !.why = "timeout"]
    /\ UNCHANGED <<pipelineVars, conv>>

\* the steps of the tool's thread
HumanQueryToolStep ==
    \/ HumanQueryTool_run
    \/ HumanQueryTool_run_except
    \/ _wait_for_response_event
    \/ _wait_for_response_empty
    \/ _wait_for_response_read_error
    \/ _wait_for_response_sleep
    \/ _wait_for_response_timeout

\* the tool on its own: one call of _run; the thread that runs the tool
\* keeps running (its reads and its sleeps return)
HumanQueryInit ==
    PipelineInit /\ conv = NoCall /\ query = [NoQuery EXCEPT !.pc = "run"]
HumanQueryNext == HumanQueryToolStep \/ HumanResponds
HumanQuerySpec ==
    HumanQueryInit /\ [][HumanQueryNext]_vars /\ WF_vars(HumanQueryToolStep)

\* ================================================================ claims

\* C1 (single ownership): whatever the interleaving of the claim calls of
\* this pipeline and of the other consumers, a task is returned to at most
\* one caller, and the job source records that caller (or nobody) as its
\* consumer.
SingleOwnership ==
    \A t \in Tasks :
       /\ Cardinality(held[t]) <= 1
       /\ \A c \in held[t] : consumer[t] \in {{c}, {}}

\* C1 witness: this pipeline and another consumer each got a task.
SingleOwnershipWitness ==
    \E t \in Tasks, u \in Tasks :
       held[t] = {Me} /\ held[u] # {} /\ Me \notin held[u]

SupervisorTerminationNoWrite ==
    waitOutcome = "terminated"
       => /\ failedWrites = 0 /\ completedWrites = 0
          /\ pc \in {"classify", "finally"} /\ ~raising

\* C3 witness: a terminated worker with a non-zero exit code, processed to
\* the end with the task still in the status its canceller set.
SupervisorTerminationWitness ==
    /\ pc = "finally" /\ waitOutcome = "terminated"
    /\ proc[row].returncode = <<1>>
    /\ status[row] \in CancelStatuses

\* C4 (exit code decides the write), as claimed: a worker that exited
\* without supervisor termination gets a COMPLETED write and no FAILED write
\* on exit code 0, and a FAILED write and no COMPLETED write otherwise.
ExitCodeDecidesWrite ==
    (pc = "finally" /\ waitOutcome = "exited")
       => IF proc[row].returncode = <<0>>
             THEN completedWrites = 1 /\ failedWrites = 0
             ELSE failedWrites >= 1 /\ completedWrites = 0

\* C5 (loop resilience), as claimed: a failure of the input preparation, of
\* the worker launch or of the wait makes exactly one FAILED write.
OneFailedWritePerFault ==
    (pc = "finally" /\ fault \in {"prepare", "launch", "wait"})
       => failedWrites = 1

\* C6 (the polling loop never stops): no exception leaves
\* start_todolist_polling, and from every error path of a task the loop gets
\* back to its sleep before the next fetch_pending_task.
InError ==
    \/ pc \in {"exec_except", "task_except", "raised"}
    \/ pc = "finally" /\ raising
PollingNeverStops ==
    /\ [](loopAlive /\ TypeOK)
    /\ (InError ~> (pc = "poll" /\ ~raising))

\* C6 witness: the wait on a worker raised (the worker is still running with
\* its handle dropped), the exception went through the loop's handler and
\* the loop is polling again.
PollingNeverStopsWitness ==
    /\ pc = "poll" /\ loopAlive /\ current_process = NoTask
    /\ \E t \in Tasks : status[t] = "FAILED" /\ proc[t].os = "running"

\* C7 (no leaked watchdog), as claimed: a watchdog is alive only while the
\* task it was started for is the one being processed.
WatchdogStoppedAfterWait ==
    \A w \in Tasks : WdLive(w) => row = w

\* C8 (no worker left running), as claimed: once _execute_worker_process
\* has returned or raised, the worker it spawned is not running (and unless
\* the launch itself failed, one worker was spawned and has exited).
NoWorkerLeftRunning ==
    execDone => /\ proc[row].os # "running"
                /\ fault # "launch" => proc[row].os = "exited"

\* C9 (flag before signal): a worker that was sent the termination signal is
\* the current process and worker_terminated_by_us is true; the flag is set
\* only for a current process without exit code, and the signal is then sent.
FlagBeforeSignalState ==
    /\ \A t \in Tasks :
          proc[t].signalled => (t = current_process /\ worker_terminated_by_us)
    /\ \A w \in Tasks :
          wd[w].pc = "signal" => (current_process # NoTask /\ worker_terminated_by_us)
FlagBeforeSignalStep ==
    /\ (~worker_terminated_by_us /\ worker_terminated_by_us')
          => /\ current_process # NoTask
             /\ proc[current_process].returncode = None
             /\ \E w \in Tasks : wd'[w].pc = "signal"
    /\ \A w \in Tasks :
          (wd[w].pc = "signal" /\ wd'[w].pc # "signal")
             => proc'[current_process].signalled
TerminateFlagBeforeSignal ==
    []FlagBeforeSignalState /\ [][FlagBeforeSignalStep]_vars

\* C9 witness: the signal has been sent to the current worker.
TerminateWitness ==
    /\ current_process # NoTask
    /\ proc[current_process].signalled /\ worker_terminated_by_us

\* C10 (read errors do not stop the watchdog): a tick whose read fails
\* leaves the watchdog in its retry backoff or in its sleep and changes
\* neither the flag, the worker, the task status nor the write counts; and a
\* tick ends the watchdog only when a cancel status is visible or the loop
\* test fails (no current process without exit code).
WatchdogTick(w) ==
    /\ wd[w].pc \in {"sleep", "retry"}
    /\ wd'[w] # wd[w]
    /\ wd'[w].pc # "cancelled"
TickChangesNothing ==
    /\ worker_terminated_by_us' = worker_terminated_by_us
    /\ proc' = proc /\ status' = status
    /\ failedWrites' = failedWrites /\ completedWrites' = completedWrites
WatchdogSurvivesReadErrorStep ==
    \A w \in Tasks :
       WatchdogTick(w) =>
          /\ (wd'[w].readErr /\ ~wd[w].readErr)
                => (wd'[w].pc \in {"retry", "sleep"} /\ TickChangesNothing)
          /\ status[wd[w].todo] \notin CancelStatuses
                => /\ TickChangesNothing
                   /\ \/ wd'[w].pc \in {"retry", "sleep"}
                      \/ ~WatchCondition(worker_terminated_by_us)
WatchdogSurvivesReadError == [][WatchdogSurvivesReadErrorStep]_vars

\* C10 witness: a watchdog whose read had failed has since read a cancel
\* status and is terminating the worker.
WatchdogSurvivesReadErrorWitness ==
    \E w \in Tasks : wd[w].readErr /\ wd[w].pc = "signal"

\* C11 (termination only on a cancel read), as claimed: a worker that was
\* sent the termination signal is the worker of the task being processed,
\* and the watchdog of that task had read CANCELLED or FB_REQUESTED for it.
SignalOnlyAfterOwnCancelRead ==
    \A t \in Tasks :
       proc[t].signalled => (t = row /\ sawCancel # "no")

\* C12 (cancellation is acted on): when the task in flight is CANCELLED or
\* FB_REQUESTED while its worker is running, then under fair scheduling with
\* successful status reads the worker is sent the termination signal (unless
\* it exits by itself first, or the wait on it fails), the wait on the worker
\* ends, and processing of the task ends with the loop back at its sleep.
CancelledWhileRunning ==
    /\ pc = "wait" /\ row # NoTask
    /\ status[row] \in CancelStatuses
    /\ proc[row].os = "running"
TerminateCalledOrMoot ==
    /\ row # NoTask
    /\ \/ proc[row].signalled /\ worker_terminated_by_us
       \/ proc[row].os = "exited" /\ ~proc[row].signalled
       \/ waitOutcome = "raised"
CancelLeadsToTermination ==
    /\ CancelledWhileRunning ~> TerminateCalledOrMoot
    /\ CancelledWhileRunning ~> (row # NoTask /\ waitOutcome # "none")
    /\ CancelledWhileRunning ~> (pc = "poll" /\ row = NoTask)

\* C12 witness: the worker of a cancelled task was signalled while running,
\* has exited, and the wait on it has returned.
CancelLeadsToTerminationWitness ==
    /\ pc = "finally" /\ waitOutcome = "terminated"
    /\ sawCancel = "running"
    /\ proc[row].signalled /\ proc[row].os = "exited"

\* C13 (one task in flight), as claimed: at most one worker started by this
\* instance is running at any time, and while the loop is at a
\* fetch_pending_task call (or the sleep or backoff before it) no task is
\* being processed.
OneTaskInFlight ==
    /\ Cardinality({t \in Tasks : proc[t].os = "running"}) <= 1
    /\ pc \in {"poll", "claim_retry"}
          => (row = NoTask /\ current_todo_id = NoTask /\ current_process = NoTask)

\* C14 (consumer cleared off lease), as claimed: a task this pipeline
\* claimed, whose processing has ended and whose status is COMPLETED, FAILED,
\* CANCELLED or FB_REQUESTED, has no consumer.
ConsumerClearedOffLease ==
    \A t \in Tasks :
       (Me \in held[t] /\ row # t
          /\ status[t] \in {"COMPLETED", "FAILED"} \cup CancelStatuses)
       => consumer[t] = {}

\* C15 (retry in input preparation), as claimed: the input preparation
\* fails the task only after Retries consecutive read errors, so a task with
\* a single transient read error is not marked FAILED.
PrepareRetriesBeforeFailing ==
    (fault = "prepare" /\ failedWrites >= 1 /\ status[row] = "FAILED")
       => readErrors >= Retries

\* C16 (unparseable output fails the task), as claimed: no worker stores a
\* result made of the raw text of an output that did not parse, and a task
\* whose worker did so is not marked COMPLETED but FAILED.
UnparsedOutputFailsTask ==
    /\ \A t \in Tasks : proc[t].stored # "raw"
    /\ (pc = "finally" /\ row # NoTask /\ proc[row].stored = "raw")
          => (completedWrites = 0 /\ status[row] = "FAILED")

\* C17 (a failed parse is raised), as claimed: convert_crew_output returns
\* only when the text was parsed; when neither json.loads, nor any fragment
\* of a multi-object text, nor ast.literal_eval parses the text (or the
\* string under the wrapper key 'result'), it raises instead of returning.
NoFragmentParses(text) ==
    LET parts == re_split(strip(text)) IN
    \A i \in 1..Len(parts) : ~json_loads(Fragment(parts, i)).ok
Unparseable(text) ==
    LET repaired == _repair_backtick_value_literals(text) IN
    /\ ~json_loads(repaired).ok
    /\ ~ast_literal_eval(repaired).ok
    /\ HasObjectBoundary(repaired) => NoFragmentParses(repaired)
WrappedString(v) ==
    isinstance_dict(v) /\ v.map["result"] # Absent /\ v.map["result"].kind = "str"
ParseFailureIsRaised ==
    conv.pc = "returned" =>
       /\ ~Unparseable(conv.text)
       /\ WrappedString(conv.out.parsed)
             => ~Unparseable(StrText(conv.out.parsed.map["result"].str))

\* C18 (wrapping is invertible): with a form identifier F the wrapped form
\* data is the mapping whose only key is F and whose value under F is the
\* pure form data; with no form identifier it is the pure form data itself.
WrappingInvertible ==
    conv.pc = "returned" =>
       IF conv.form_id # ""
          THEN /\ KeysOf(conv.out.wrapped) = {conv.form_id}
               /\ conv.out.wrapped[conv.form_id] = Map(conv.out.pure)
          ELSE conv.out.wrapped = conv.out.pure

\* C18 witness: a form data with two fields was wrapped under F.
WrappingInvertibleWitness ==
    /\ conv.pc = "returned" /\ conv.form_id = "F"
    /\ KeysOf(conv.out.pure) = {"a", "b"}
    /\ conv.out.wrapped["F"].map["b"] = conv.out.pure["b"]

\* C19 (merge of several objects): a text whose lines are objects (some of
\* which may not parse) is parsed, and each key of the result has the value
\* given by the last line that parses and holds the key; more generally,
\* when json.loads fails on a text with an object boundary, the result is
\* that merge over the fragments of the split.
Max(S) == CHOOSE x \in S : \A y \in S : y <= x
Holding(frags, k) ==
    {i \in 1..Len(frags) :
        LET obj == json_loads(frags[i]) IN
        obj.ok /\ isinstance_dict(obj.val) /\ obj.val.map[k] # Absent}
LastWins(frags) ==
    [k \in Keys |->
        IF Holding(frags, k) = {} THEN Absent
        ELSE json_loads(frags[Max(Holding(frags, k))]).val.map[k]]
BalancedFragments == {f \in MultiFragments : f[Len(f)] = RBrace}
SplitFragments(text) ==
    LET parts == re_split(strip(text)) IN
    [i \in 1..Len(parts) |-> Fragment(parts, i)]
MultiObjectMerge ==
    /\ \A q \in UNION {[1..n -> BalancedFragments] : n \in 2..MaxFragments} :
          conv.text = Lines(q) =>
             /\ conv.pc # "raised"
             /\ conv.pc = "returned" => conv.out.parsed = Map(LastWins(q))
    /\ (~json_loads(conv.text).ok /\ HasObjectBoundary(conv.text)) =>
          /\ conv.pc # "raised"
          /\ conv.pc = "returned" =>
                conv.out.parsed = Map(LastWins(SplitFragments(conv.text)))

\* C19 witness: two objects with the same key; the value of the second one
\* is in the result.
MultiObjectMergeWitness ==
    /\ conv.pc = "returned"
    /\ conv.text = Lines(<<Object(<<Pair("a", SX)>>), Object(<<Pair("a", SY)>>)>>)
    /\ conv.out.parsed = Map(Single("a", SY))

\* C20 (normalisation of the form data): the form data of an object with no
\* 'result' wrapper is normalised by shape: a mapping as it is, a list to
\* the mapping key -> text of its entries, a string s to {content: s},
\* anything else or nothing to the empty mapping (fields declared as report
\* or slide fields aside).
KeptAs(q, k, Kept(_)) ==
    {i \in 1..Len(q) : Kept(q[i]) /\ q[i].map["key"] = Str(k)}
Projected(q, Kept(_)) ==
    [k \in Keys |->
        IF KeptAs(q, k, Kept) = {} THEN Absent
        ELSE LET item == q[Max(KeptAs(q, k, Kept))] IN
             IF item.map["text"] # Absent THEN item.map["text"] ELSE Null]
Normalised(v, Kept(_)) ==
    IF v.kind = "map" THEN v.map
    ELSE IF v.kind = "list" THEN Projected(v.list, Kept)
    ELSE IF v.kind = "str" THEN Single("content", v)
    ELSE EmptyMap
NormalisedBy(Kept(_)) ==
    (/\ conv.pc = "returned"
     /\ isinstance_dict(conv.out.parsed)
     /\ conv.out.parsed.map["result"] = Absent)
    => \A k \in Keys \ (conv.report_field_keys \cup conv.slide_field_keys) :
          conv.out.pure[k] = Normalised(conv.out.parsed.map[FormDataKey], Kept)[k]
\* as claimed: only the entries that are {key, text} pairs are kept
IsKeyTextPair(item) ==
    isinstance_dict(item) /\ item.map["key"] # Absent /\ item.map["text"] # Absent
FormDataNormalisedKeepingPairs == NormalisedBy(IsKeyTextPair)
\* amended: every entry that is a mapping holding 'key' is kept, and one
\* that holds no 'text' maps its key to null
HoldsKey(item) == isinstance_dict(item) /\ item.map["key"] # Absent
FormDataNormalised == NormalisedBy(HoldsKey)

\* C20 witness: a list whose second entry repeats the key of the first and
\* holds no text gave the mapping of that key to null.
FormDataNormalisedWitness ==
    /\ conv.pc = "returned"
    /\ isinstance_dict(conv.out.parsed)
    /\ conv.out.parsed.map[FormDataKey].kind = "list"
    /\ Len(conv.out.parsed.map[FormDataKey].list) = 2
    /\ conv.out.parsed.map[FormDataKey].list[1].map["text"] = SX
    /\ conv.out.pure = Single("a", Null)

\* C21 (field routing): the key sets of pureFormData, reportFields and
\* slideFields are pairwise disjoint, and for an object with no 'result'
\* wrapper every field that form_types declares as a report (slide) field
\* and that occurs at the top level of the object or in its form data is in
\* reportFields (slideFields) with its value, the top-level value first, and
\* not in pureFormData.
Delivered(top, form, k) == IF top[k] # Absent THEN top[k] ELSE form[k]
InnerObject ==
    _parse_json_guard(StrText(conv.out.parsed.map["result"].str))
NestedWrapperUnwrapped ==
    (/\ conv.pc = "returned"
     /\ WrappedString(conv.out.parsed)
     /\ InnerObject.ok /\ isinstance_dict(InnerObject.val)
     /\ InnerObject.val.map[FormDataKey] # Absent)
    => \A k \in Keys \ (conv.report_field_keys \cup conv.slide_field_keys) :
          conv.out.pure[k] =
             Normalised(InnerObject.val.map[FormDataKey], HoldsKey)[k]

\* C22 witness: the inner string is an object in Python literal syntax
\* whose form data is {b: y}.
NestedWrapperUnwrappedWitness ==
    /\ conv.pc = "returned"
    /\ conv.report_field_keys = {} /\ conv.slide_field_keys = {}
    /\ conv.text = Object(<<Pair("result", Str("{'form_data':{'b':'y'}}"))>>)
    /\ conv.out.pure = Single("b", SY)

\* C23 (authoritative region): commentary before the final object, or a
\* fence around the object, does not make the parse fail: the call returns
\* what it returns on the object alone (the text 'words' followed by an
\* object whose form data is the backtick literal x gives {content: x}).
AuthoritativeRegions(object) ==
    {<<Junk, NL>> \o object, <<Fence, NL>> \o object \o <<NL, Fence>>}
AuthoritativeRegionParsed ==
    \A object \in {t \in SingleTexts : IsObject(t, {"pair", "btpair"})} :
       conv.text \in AuthoritativeRegions(object) =>
          /\ conv.pc # "raised"
          /\ conv.pc = "returned" =>
                conv.out.pure =
                   convert_crew_output(object, conv.form_id, conv.report_field_keys,
                                       conv.slide_field_keys).pure

\* C24 (human query tool): _run always returns a string and does not wait
\* forever: it returns the answer of the human_response event as soon as a
\* read gives the event, a failing read is followed by the sleep and the
\* next poll, the refusal string is returned only after the timeout (or
\* when _run failed before waiting), and the call ends, at the latest one
\* read and one sleep after the timeout.
HumanQueryReturned ==
    query.pc = "done" =>
       /\ query.result \in {"answer", "str(data)", Refusal}
       /\ query.why = "event" =>
             /\ query.last = "event" /\ query.event # "none"
             /\ query.result = IF query.event = "answer" THEN "answer" ELSE "str(data)"
       /\ query.why = "timeout" => query.now >= TimeoutSec /\ query.result = Refusal
       /\ query.result = Refusal =>
             \/ query.why = "timeout"
             \/ query.why = "error" /\ query.last = "none"
FailedReadKeepsPolling ==
    (/\ query.pc = "wait" /\ query.now < TimeoutSec
     /\ query'.pc # "wait" /\ query'.last = "error")
       => query'.pc = "sleep"
HumanQueryToolReturns ==
    /\ [](HumanQueryReturned)
    /\ [](query.now <= TimeoutSec + MaxReadSec + PollIntervalSec)
    /\ [][FailedReadKeepsPolling]_vars
    /\ <>(query.pc = "done")

\* C24 witness: the reads failed up to the timeout and the refusal string
\* was returned.
HumanQueryToolReturnsWitness ==
    /\ query.pc = "done" /\ query.why = "timeout"
    /\ query.last = "error" /\ query.result = Refusal

\* C25 (status writes follow the task state machine): a step changes the
\* status of a task to COMPLETED or FAILED only if the task is the one in
\* flight and its status was LEASED just before; so a task that an external
\* actor set to CANCELLED or FB_REQUESTED is not changed to COMPLETED or
\* FAILED afterwards.
TerminalWriteOnLeasedTask ==
    \A t \in Tasks :
       (status'[t] \in {"COMPLETED", "FAILED"} /\ status'[t] # status[t])
          => t = row /\ status[t] = "LEASED"
StatusWritesFollowStateMachine == [][TerminalWriteOnLeasedTask]_vars

\* C26 (bounded retry of the claim): the claim is called at most Retries
\* times in one fetch_pending_task; a call that succeeds ends the retries
\* and its row is handed to process_new_task; a failed call that is not the
\* last is followed by the next attempt; after the last failed call
\* fetch_pending_task gives no task: nothing is raised, no processing
\* starts and the pipeline writes no status.
ClaimAttemptsBounded ==
    /\ attempt \in 1..Retries
    /\ pc = "claim_retry" => attempt >= 2 /\ row = NoTask
ClaimAttemptStep ==
    pc \in {"poll", "claim_retry"} =>
       /\ pc' = "claim_retry" /\ pc = "poll" => attempt' = 2
       /\ pc' = "claim_retry" /\ attempt' # attempt => attempt' = attempt + 1
       /\ pc' = "prepare" =>
             /\ row' \in Tasks /\ status[row'] = "PENDING"
             /\ status'[row'] = "LEASED" /\ consumer'[row'] = {Me}
       /\ attempt = Retries =>
             /\ pc' \in {"claim_retry", "poll", "prepare"}
             /\ pc' = "poll" =>
                   /\ row' = NoTask /\ attempt' = 1
                   /\ loopAlive' = loopAlive /\ raising' = raising
                   /\ failedWrites' = 0 /\ completedWrites' = 0
                   /\ \A t \in Tasks : status'[t] \notin {"COMPLETED", "FAILED"}
                         \/ status'[t] = status[t]
ClaimRetryBounded == [](ClaimAttemptsBounded) /\ [][ClaimAttemptStep]_vars

\* C26 witness: two calls of the claim have failed and the third is due.
ClaimRetryBoundedWitness == pc = "claim_retry" /\ attempt = Retries

\* C27 (COMPLETED only after the result was submitted), as claimed: when the
\* pipeline has written COMPLETED for the task in flight, the worker of the
\* task has stored a result through save_task_result; a worker that skipped
\* the save or failed in it does not lead to COMPLETED.
CompletedOnlyAfterResultSaved ==
    (row # NoTask /\ completedWrites >= 1 /\ status[row] = "COMPLETED")
       => proc[row].stored \in {"object", "raw"}

\* C28 (one terminal write per task), as claimed: over the handling of a
\* claimed task the pipeline calls update_task_completed or
\* update_task_error at most once in all.
AtMostOneTerminalWrite == failedWrites + completedWrites <= 1

\* The next call of fetch_pending_task: asyncio.sleep ends, both the polling
\* sleep of start_todolist_polling and the backoff of _async_retry, and the
\* call is made again, whatever its outcome.
fetch_pending_task ==
    \/ fetch_pending_task_row
    \/ fetch_pending_task_empty
    \/ fetch_pending_task_error
    \/ fetch_pending_task_lost

\* The polling loop under fair scheduling with its sleeps ending.
PollFairSpec == FairSpec /\ WF_vars(fetch_pending_task)

\* C29 (no lease is lost), as claimed: a task that the job source has
\* leased to this consumer is eventually handed to process_new_task (or
\* leaves the LEASED status), also when the response of the claim call that
\* leased it was lost and the retry repeated the call.
LeasedTaskEventuallyProcessed ==
    \A t \in Tasks :
       (status[t] = "LEASED" /\ consumer[t] = {Me})
          ~> (Me \in held[t] \/ status[t] # "LEASED")

\* C30 (globals reset between tasks), as claimed: at every call of
\* fetch_pending_task, and when process_new_task has raised, current_todo_id
\* and current_process are None and worker_terminated_by_us is false; and
\* when the exit of a task's worker is classified with the flag set, the
\* flag was set for that task: its own watchdog has read a cancel status.
GlobalsResetBetweenTasks ==
    /\ pc \in {"poll", "claim_retry", "raised"} =>
          /\ current_todo_id = NoTask /\ current_process = NoTask
          /\ ~worker_terminated_by_us
    /\ (pc = "classify" /\ worker_terminated_by_us) => sawCancel # "no"
====
